---------------------------- MODULE Spec2Model ----------------------------
(***************************************************************************)
(* Run supervision of the LiveCodeRunner widget (Dev-Leet/Notes_site).     *)
(*                                                                         *)
(* The repository holds three implementations of the same widget:          *)
(*   "main"    src/src/LiveCodeRunner.js lines 1-263: the engine runs on   *)
(*             the UI thread, a run is a Promise.race against a timer;     *)
(*   "perrun"  src/src/LiveCodeRunner.js lines 264-645: a fresh Worker     *)
(*             per run, the engine is loaded inside the worker;            *)
(*   "persist" src/unnamed/part_000: one persistent Worker, requests kept  *)
(*             in the Map pendingExecutions by run identifier.             *)
(* The variable `variant` is fixed by Init and selects the implementation. *)
(*                                                                         *)
(* Texts (messages, outputs) are sequences of one-character strings.       *)
(* A step of the model is one macrotask of the browser's event loop: an    *)
(* event handler together with the promise continuations (microtasks) it   *)
(* releases.  React state written by a handler is visible to the next      *)
(* task; a closure created by a render keeps the state values of that      *)
(* render.                                                                 *)
(***************************************************************************)
EXTENDS Integers, Sequences, FiniteSets, TLC

\* ----------------------------------------------------------------- bounds
\* Number of Run clicks explored per behaviour.
MaxRuns == 2

\* ------------------------------------------------------------------ texts
\* Literals of the source.  A dash stands for the source's em dash and the
\* backquotes of the load-failure message are left out.
TXT_ErrorPrefix ==
  <<"[","E","r","r","o","r","]"," ">>
TXT_Stopped ==
  <<"[","E","x","e","c","u","t","i","o","n"," ","s","t","o","p","p","e","d","]">>
TXT_UnknownError ==
  <<"U","n","k","n","o","w","n"," ","e","r","r","o","r">>
TXT_PExecTimeoutOut ==
  <<"[","E","r","r","o","r","]"," ","E","x","e","c","u","t","i","o","n"," ","t","i","m","e","o","u","t">>
TXT_PExecTimeoutErr ==
  <<"E","x","e","c","u","t","i","o","n"," ","t","i","m","e","o","u","t"," ","a","f","t","e","r"," ","3","0","0","0","0"," ","m","s">>
TXT_InitTimeout ==
  <<"W","o","r","k","e","r"," ","i","n","i","t","i","a","l","i","z","a","t","i","o","n"," ","t","i","m","e","o","u","t">>
TXT_WorkerNotReady ==
  <<"W","o","r","k","e","r"," ","n","o","t"," ","r","e","a","d","y">>
TXT_ClientTimeout ==
  <<"C","l","i","e","n","t","-","s","i","d","e"," ","t","i","m","e","o","u","t"," ","a","f","t","e","r"," ","8","0","0","0"," ","m","s">>
TXT_UnknownWorkerError ==
  <<"U","n","k","n","o","w","n"," ","e","r","r","o","r"," ","f","r","o","m"," ","w","o","r","k","e","r">>
TXT_WorkerRuntimeError ==
  <<"W","o","r","k","e","r"," ","r","u","n","t","i","m","e"," ","e","r","r","o","r">>
TXT_CouldNotLoad ==
  <<"C","o","u","l","d"," ","n","o","t"," ","l","o","a","d"," ","p","h","p","-","w","a","s","m"," ","r","u","n","t","i","m","e"," ","f","r","o","m"," ","/","p","h","p","-","w","a","s","m","/","p","h","p","-","w","o","r","k","e","r",".","m","j","s"," ","o","r"," ","/","p","h","p","-","w","a","s","m","/","p","h","p","-","w","o","r","k","e","r",".","j","s">>
TXT_MStoppedByUser ==
  <<"[","E","x","e","c","u","t","i","o","n"," ","s","t","o","p","p","e","d"," ","b","y"," ","u","s","e","r","]">>
TXT_MTimedOutOut ==
  <<"[","E","x","e","c","u","t","i","o","n"," ","t","i","m","e","d"," ","o","u","t","]">>
TXT_MTimedOutErr ==
  <<"E","x","e","c","u","t","i","o","n"," ","t","i","m","e","d"," ","o","u","t"," ","a","f","t","e","r"," ","8","0","0","0"," ","m","s">>
TXT_MExecError ==
  <<"[","E","x","e","c","u","t","i","o","n"," ","e","r","r","o","r"," ","-"," ","s","e","e"," ","c","o","n","s","o","l","e","]">>
TXT_MStopping ==
  <<"[","S","t","o","p","p","i","n","g"," ","e","x","e","c","u","t","i","o","n"," ","-"," ","r","e","s","u","l","t"," ","m","a","y"," ","s","t","i","l","l"," ","a","r","r","i","v","e"," ","i","f"," ","r","u","n","t","i","m","e"," ","c","a","n","n","o","t"," ","b","e"," ","a","b","o","r","t","e","d","]">>
TXT_MLoadFailed ==
  <<"F","a","i","l","e","d"," ","t","o"," ","l","o","a","d"," ","p","h","p","-","w","a","s","m"," ","r","u","n","t","i","m","e","."," ","M","a","k","e"," ","s","u","r","e"," ","p","h","p","-","w","a","s","m"," ","i","s"," ","i","n","s","t","a","l","l","e","d"," ","(","n","p","m"," ","i"," ","p","h","p","-","w","a","s","m",")",".">>
TXT_MNoRunner ==
  <<"p","h","p","-","w","a","s","m"," ","r","u","n","t","i","m","e"," ","d","o","e","s"," ","n","o","t"," ","e","x","p","o","s","e"," ","a"," ","r","u","n","(",")"," ","f","u","n","c","t","i","o","n",".">>
PAT_timeout ==
  <<"t","i","m","e","o","u","t">>
PAT_timed_out ==
  <<"t","i","m","e","d"," ","o","u","t">>

\* The values the opaque engine can hand back in the explored behaviours:
\* results returned by its run entry point and messages of errors it throws.
TXT_Five ==
  <<"5">>
TXT_Bold ==
  <<"<","b",">">>
TXT_Warn ==
  <<"W">>
TXT_ParseError ==
  <<"P","a","r","s","e"," ","e","r","r","o","r">>
TXT_CurlTimeout ==
  <<"c","u","r","l"," ","t","i","m","e","o","u","t">>
TXT_ConnTimedOut ==
  <<"C","o","n","n","e","c","t","i","o","n"," ","t","i","m","e","d"," ","o","u","t">>
TXT_ObjectObject ==
  <<"[","o","b","j","e","c","t"," ","O","b","j","e","c","t","]">>

LowerLetters ==
  <<"a","b","c","d","e","f","g","h","i","j","k","l","m",
    "n","o","p","q","r","s","t","u","v","w","x","y","z">>
UpperLetters ==
  <<"A","B","C","D","E","F","G","H","I","J","K","L","M",
    "N","O","P","Q","R","S","T","U","V","W","X","Y","Z">>

\* String.prototype.toLowerCase, one character.
LowerChar(c) ==
  IF \E i \in 1..26 : UpperLetters[i] = c
  THEN LowerLetters[CHOOSE i \in 1..26 : UpperLetters[i] = c]
  ELSE c

ToLowerCase(s) == [i \in 1..Len(s) |-> LowerChar(s[i])]

\* String.prototype.includes: p occurs in s as a contiguous substring.
Includes(s, p) ==
  \E i \in 0..(Len(s) - Len(p)) : SubSeq(s, i + 1, i + Len(p)) = p

IsLetter(c) == \E i \in 1..26 : LowerLetters[i] = c \/ UpperLetters[i] = c

\* Faulty variant of LooksLikeHtml: the pattern without its i flag.
LooksLikeHtmlLowerCaseOnly(s) ==
  \E i \in 1..Len(s) :
    /\ s[i] = "<"
    /\ LET l == IF i + 1 <= Len(s) /\ s[i + 1] = "/" THEN i + 2 ELSE i + 1
       IN  /\ l <= Len(s)
           /\ \E n \in 1..26 : LowerLetters[n] = s[l]
           /\ \E k \in (l + 1)..Len(s) : s[k] = ">"

\* /<\/?[a-z][\s\S]*>/i.test(s): a '<', an optional '/', a letter, and a
\* '>' anywhere after that letter.
LooksLikeHtml(s) ==
  \E i \in 1..Len(s) :
    /\ s[i] = "<"
    /\ LET l == IF i + 1 <= Len(s) /\ s[i + 1] = "/" THEN i + 2 ELSE i + 1
       IN  /\ l <= Len(s)
           /\ IsLetter(s[l])
           /\ \E k \in (l + 1)..Len(s) : s[k] = ">"

\* A nullable text (React state holding null or a string).
Null == [null |-> TRUE, text |-> <<>>]
Some(t) == [null |-> FALSE, text |-> t]

\* Values returned by the engine's run entry point.
StrVal(t) == [kind |-> "str", s |-> t, stdout |-> <<>>, stderr |-> <<>>]
ObjVal(o, e) == [kind |-> "obj", s |-> <<>>, stdout |-> o, stderr |-> e]
EngineResults == { StrVal(TXT_Five), ObjVal(TXT_Bold, TXT_Warn) }
EngineErrors == { TXT_ParseError, TXT_CurlTimeout, TXT_ConnTimedOut }

\* JavaScript String(v) and truthiness of an engine value.
JsString(v) == IF v.kind = "str" THEN v.s ELSE TXT_ObjectObject
Truthy(v) == v.kind = "obj" \/ v.s # <<>>

\* a || b on texts.
OrText(a, b) == IF a # <<>> THEN a ELSE b

\* --------------------------------------------------------------- state
VARIABLES
  variant,            \* which implementation: "main", "perrun", "persist"
  pkg,                \* the php-wasm package as served (fixed by Init)
  src,                \* editor content: "orig" (the code prop) or "edited"
  output,             \* useState output
  isHtmlOutput,       \* useState isHtmlOutput            (worker variants)
  status,             \* useState status                  (worker variants)
  lastError,          \* useState lastError               (worker variants)
  workerRef,          \* workerRef.current: 0 is null, else a worker
  runIdRef,           \* runIdRef.current
  isWorkerReady,      \* isWorkerReady.current            (persist)
  pendingExecutions,  \* keys of the Map pendingExecutions (persist)
  workers,            \* the Workers created so far       (persist)
  isLoadingRuntime,   \* useState isLoadingRuntime        (main)
  isRunning,          \* useState isRunning               (main)
  php,                \* useState php: loaded engine or null (main)
  error,              \* useState error                   (main)
  timedOut,           \* useState timedOut                (main)
  abortRef,           \* abortRef.current                 (main)
  runs,               \* one record per runCode call: its closure and promise
  ev,                 \* history: the event of the last step
  lastUser            \* history: the last user action

uiVars == <<output, isHtmlOutput, status, lastError>>
workerVars == <<workerRef, runIdRef, isWorkerReady, pendingExecutions, workers>>
mainVars == <<isLoadingRuntime, isRunning, php, error, timedOut, abortRef>>
vars == <<variant, pkg, src, uiVars, workerVars, mainVars, runs, ev, lastUser>>

Variants == {"main", "perrun", "persist"}

\* The php-wasm package: what loading each candidate source comes to
\* ("importFails": import() rejects; "noFactory": the module lacks the
\* factory or class; "factoryFails": constructing the engine throws;
\* "initFails": the engine is constructed but its initialisation rejects;
\* "ok") and the entry points the constructed engine exposes as functions.
\* Spec lets every load and every execution end in any way, whatever the
\* package; LoaderSpec and EntrySpec derive the outcome from the package.
Package(ss, ms) == [sources |-> ss, methods |-> ms]
UsualPackage == Package(<<"ok", "ok", "ok">>, {"run"})

\* A worker of the persist variant with the promise initializeWorker made
\* for it: st is the worker ("loading" the engine after the ping, "ready",
\* "failed" when every CDN failed, "terminated"), run the runCode call that
\* awaits the promise (0: the mount effect), initTimer the 10 s timer.
\* History field: wasReady (the worker created its engine and said so).
NewWorker(r) ==
  [st |-> "loading", run |-> r, initTimer |-> "armed", settled |-> FALSE,
   wasReady |-> FALSE]

\* A runCode call.  pc: "load" awaiting the engine or worker, "exec"
\* awaiting the execution race, "done" returned.  timer: the execution
\* timeout ("none", "armed", "fired", "cleared").  exec: the executor's
\* work for this run ("none", "loading", "busy", "done", "dead").
\* id: the run identifier; w: the worker; phpSeen: the php state the
\* closure captured; finished: runWithWorker's flag.  History fields:
\* applied (the outcomes written to the visible state for this run),
\* loaded / loadFailed (the engine load this run waited for succeeded /
\* failed), sawRunning (the run set the running indication).
NewRun ==
  [pc |-> "load", timer |-> "none", exec |-> "none", id |-> 0, w |-> 0,
   phpSeen |-> FALSE, finished |-> FALSE,
   applied |-> <<>>, loaded |-> FALSE, loadFailed |-> FALSE,
   sawRunning |-> FALSE]

Event(k, r) == [kind |-> k, run |-> r]
UserKinds == {"run", "stop", "reset", "clear", "edit"}

Init ==
  /\ variant \in Variants
  /\ pkg = UsualPackage
  /\ src = "orig"
  /\ output = <<>>
  /\ isHtmlOutput = FALSE
  /\ status = "idle"
  /\ lastError = Null
  /\ runIdRef = 0
  /\ isWorkerReady = FALSE
  /\ pendingExecutions = {}
  \* persist: the mount effect has called initializeWorker, which created
  \* the first worker and pinged it.
  /\ workers = IF variant = "persist" THEN <<NewWorker(0)>> ELSE <<>>
  /\ workerRef = IF variant = "persist" THEN 1 ELSE 0
  /\ isLoadingRuntime = FALSE
  /\ isRunning = FALSE
  /\ php = FALSE
  /\ error = Null
  /\ timedOut = FALSE
  /\ abortRef = FALSE
  /\ runs = <<>>
  /\ ev = Event("mount", 0)
  /\ lastUser = "none"

\* The latest runCode call.
Latest == Len(runs)
RunIds == 1..Len(runs)
Applied(r, o) == [runs EXCEPT ![r].applied = Append(@, o)]

\* Faulty variant of NextRunId: after the first run the counter is read
\* without being advanced.
NextRunIdStuck == IF runIdRef = 0 THEN runIdRef + 1 ELSE runIdRef

\* ++runIdRef.current (perrun: line 376; persist: part_000 line 280).
NextRunId == runIdRef + 1

\* ------------------------------------------------ actions of every variant
\* textarea onChange / contentEditable onInput: setSrc.
Edit ==
  /\ src = "orig"
  /\ src' = "edited"
  /\ ev' = Event("edit", 0)
  /\ lastUser' = "edit"
  /\ UNCHANGED <<variant, pkg, uiVars, workerVars, mainVars, runs>>

\* ----------------------------------------- variant "main" (engine on the page)
IsSpace(c) == c \in {" ", "\n", "\t", "\r"}

\* String.prototype.trim.
RECURSIVE Trim(_)
Trim(s) ==
  IF s = <<>> THEN s
  ELSE IF IsSpace(Head(s)) THEN Trim(Tail(s))
  ELSE IF IsSpace(s[Len(s)]) THEN Trim(SubSeq(s, 1, Len(s) - 1))
  ELSE s

\* runPromise, lines 101-113: normalisation of the runner's value.
M_Normalize(v) ==
  IF v.kind = "str" THEN v.s
  ELSE IF v.stdout # <<>> \/ v.stderr # <<>>
       THEN Trim(v.stdout \o (IF v.stderr # <<>> THEN <<"\n">> \o v.stderr ELSE <<>>))
       ELSE JsString(v)

\* Faulty variant of M_IsTimeoutMessage: the pattern of the perrun variant's test
\* (line 463) used against the message of line 124.
M_IsTimeoutMessageWrongPattern(m) == Includes(ToLowerCase(m), PAT_timeout)

\* runCode's catch, line 136: /timed out/i.test(err.message || "").
M_IsTimeoutMessage(m) == Includes(ToLowerCase(m), PAT_timed_out)

\* The php value runCode tests at line 79 after `await loadRuntime()`: the
\* one its closure captured when the click happened.
M_PhpAfterLoad(r) == runs[r].phpSeen

\* runCode from line 84 on: runPromise and the timeout timer are started.
M_Started(rec) ==
  [rec EXCEPT !.pc = "exec", !.exec = "busy", !.timer = "armed", !.sawRunning = TRUE]

\* runCode, lines 68-78 (and loadRuntime's synchronous part, 27-30, when
\* the closure's php is null).  One more click than MaxRuns is explored:
\* the click that loads the engine executes nothing.
M_Run ==
  /\ variant = "main"
  /\ ~isLoadingRuntime /\ ~isRunning
  /\ Len(runs) <= MaxRuns
  /\ error' = Null
  /\ timedOut' = FALSE
  /\ abortRef' = FALSE
  /\ output' = <<>>
  /\ isRunning' = TRUE
  /\ IF ~php
     THEN /\ isLoadingRuntime' = TRUE
          /\ runs' = Append(runs, NewRun)
     ELSE /\ runs' = Append(runs, M_Started([NewRun EXCEPT !.phpSeen = TRUE,
                                                          !.loaded = TRUE]))
          /\ UNCHANGED isLoadingRuntime
  /\ ev' = Event("run", Len(runs) + 1)
  /\ lastUser' = "run"
  /\ UNCHANGED <<variant, pkg, src, isHtmlOutput, status, lastError, workerVars, php>>

\* loadRuntime created the engine (lines 33-43, 50), then runCode resumes
\* at line 79.
M_LoadOk(r) ==
  /\ variant = "main"
  /\ runs[r].pc = "load"
  /\ php' = TRUE
  /\ isLoadingRuntime' = FALSE
  /\ IF ~M_PhpAfterLoad(r)
     THEN /\ isRunning' = FALSE
          /\ runs' = [runs EXCEPT ![r].pc = "done", ![r].loaded = TRUE]
     ELSE /\ runs' = [runs EXCEPT ![r] = M_Started([@ EXCEPT !.loaded = TRUE])]
          /\ UNCHANGED isRunning
  /\ ev' = Event("loaded", r)
  /\ UNCHANGED <<variant, pkg, src, uiVars, workerVars, error, timedOut, abortRef, lastUser>>

\* loadRuntime failed (lines 44-50), then runCode resumes at line 79.
M_LoadFail(r) ==
  /\ variant = "main"
  /\ runs[r].pc = "load"
  /\ error' = Some(TXT_MLoadFailed)
  /\ isLoadingRuntime' = FALSE
  /\ IF ~M_PhpAfterLoad(r)
     THEN /\ isRunning' = FALSE
          /\ runs' = [runs EXCEPT ![r].pc = "done", ![r].loadFailed = TRUE,
                                  ![r].applied = Append(@, "error")]
     ELSE /\ runs' = [runs EXCEPT ![r] = M_Started([@ EXCEPT !.loadFailed = TRUE])]
          /\ UNCHANGED isRunning
  /\ ev' = Event("loadfail", r)
  /\ UNCHANGED <<variant, pkg, src, uiVars, workerVars, php, timedOut, abortRef, lastUser>>

\* runCode after the race resolved with text t, lines 129-134 and 146-148.
M_RaceResolved(r, t, rs) ==
  /\ output' = IF abortRef THEN TXT_MStoppedByUser ELSE t
  /\ isRunning' = FALSE
  /\ runs' = [rs EXCEPT ![r].pc = "done",
                ![r].applied = Append(@, IF abortRef THEN "stopped" ELSE "success")]
  /\ UNCHANGED <<error, timedOut>>

\* runCode's catch after the race rejected with message m, lines 135-148.
M_RaceRejected(r, m, rs) ==
  /\ IF M_IsTimeoutMessage(m)
     THEN /\ timedOut' = TRUE
          /\ output' = TXT_MTimedOutOut
          /\ UNCHANGED error
     ELSE IF abortRef
     THEN /\ output' = TXT_MStoppedByUser
          /\ UNCHANGED <<error, timedOut>>
     ELSE /\ error' = Some(m)
          /\ output' = TXT_MExecError
          /\ UNCHANGED timedOut
  /\ isRunning' = FALSE
  /\ runs' = [rs EXCEPT ![r].pc = "done",
                ![r].applied = Append(@, IF M_IsTimeoutMessage(m) THEN "timeout"
                                         ELSE IF abortRef THEN "stopped" ELSE "error")]

\* runPromise of run r resolves (lines 88-113).  Promise.race ignores it
\* when the timer has already settled the race.
M_ExecResult(r, v) ==
  /\ variant = "main"
  /\ runs[r].exec = "busy"
  /\ IF runs[r].pc = "exec"
     THEN M_RaceResolved(r, M_Normalize(v), [runs EXCEPT ![r].exec = "done"])
     ELSE /\ runs' = [runs EXCEPT ![r].exec = "done"]
          /\ UNCHANGED <<output, isRunning, error, timedOut>>
  /\ ev' = Event(IF runs[r].pc = "exec" THEN "result" ELSE "stale", r)
  /\ UNCHANGED <<variant, pkg, src, isHtmlOutput, status, lastError, workerVars,
                 isLoadingRuntime, php, abortRef, lastUser>>

\* runPromise of run r rejects with the engine's error (lines 114-117).
M_ExecError(r, m) ==
  /\ variant = "main"
  /\ runs[r].exec = "busy"
  /\ IF runs[r].pc = "exec"
     THEN M_RaceRejected(r, m, [runs EXCEPT ![r].exec = "done"])
     ELSE /\ runs' = [runs EXCEPT ![r].exec = "done"]
          /\ UNCHANGED <<output, isRunning, error, timedOut>>
  /\ ev' = Event(IF runs[r].pc = "exec" THEN "error" ELSE "stale", r)
  /\ UNCHANGED <<variant, pkg, src, isHtmlOutput, status, lastError, workerVars,
                 isLoadingRuntime, php, abortRef, lastUser>>

\* The timer of timeoutPromise fires, lines 122-126.  Nothing clears it;
\* its rejection is ignored when runPromise has already settled the race.
M_Timer(r) ==
  /\ variant = "main"
  /\ runs[r].timer = "armed"
  /\ IF runs[r].pc = "exec"
     THEN M_RaceRejected(r, TXT_MTimedOutErr, [runs EXCEPT ![r].timer = "fired"])
     ELSE /\ runs' = [runs EXCEPT ![r].timer = "fired"]
          /\ UNCHANGED <<output, isRunning, error, timedOut>>
  /\ ev' = Event("timer", r)
  /\ UNCHANGED <<variant, pkg, src, isHtmlOutput, status, lastError, workerVars,
                 isLoadingRuntime, php, abortRef, lastUser>>

\* stopExecution, lines 151-164; the Stop button is enabled while
\* isRunning (line 240).  php.kill / php.terminate are best effort: the
\* running execution may or may not ever settle afterwards.
M_Stop ==
  /\ variant = "main"
  /\ isRunning
  /\ abortRef' = TRUE
  /\ isRunning' = FALSE
  /\ output' = TXT_MStopping
  /\ runs' = Applied(Latest, "stopped")
  /\ ev' = Event("stop", Latest)
  /\ lastUser' = "stop"
  /\ UNCHANGED <<variant, pkg, src, isHtmlOutput, status, lastError, workerVars,
                 isLoadingRuntime, php, error, timedOut>>

\* Reset button, lines 216-225.
M_Reset ==
  /\ variant = "main"
  /\ src' = "orig"
  /\ output' = <<>>
  /\ error' = Null
  /\ ev' = Event("reset", 0)
  /\ lastUser' = "reset"
  /\ UNCHANGED <<variant, pkg, isHtmlOutput, status, lastError, workerVars,
                 isLoadingRuntime, isRunning, php, timedOut, abortRef, runs>>

\* Clear button, lines 227-236.
M_Clear ==
  /\ variant = "main"
  /\ output' = <<>>
  /\ error' = Null
  /\ timedOut' = FALSE
  /\ ev' = Event("clear", 0)
  /\ lastUser' = "clear"
  /\ UNCHANGED <<variant, pkg, src, isHtmlOutput, status, lastError, workerVars,
                 isLoadingRuntime, isRunning, php, abortRef, runs>>

M_Next ==
  \/ M_Run
  \/ M_Stop
  \/ M_Reset
  \/ M_Clear
  \/ \E r \in RunIds : M_LoadOk(r)
  \/ \E r \in RunIds : M_LoadFail(r)
  \/ \E r \in RunIds, v \in EngineResults : M_ExecResult(r, v)
  \/ \E r \in RunIds, m \in EngineErrors : M_ExecError(r, m)
  \/ \E r \in RunIds : M_Timer(r)

\* ------------------------------------------- variant "perrun" (Worker per run)
\* Worker script, lines 333-338: normalisation of php.run's value.
W_Normalize(v) ==
  IF v.stdout # <<>> \/ v.stderr # <<>>
  THEN v.stdout \o (IF v.stderr # <<>> THEN <<"\n">> \o v.stderr ELSE <<>>)
  ELSE JsString(v)

\* runCode's catch, line 463: the status an error message yields.
W_ErrorStatus(m) ==
  IF m # <<>> /\ Includes(ToLowerCase(m), PAT_timeout) THEN "timeout" ELSE "error"

\* cleanup() of run r, and the same two statements in the timer callback:
\* worker.terminate(); if (workerRef.current === worker) workerRef.current = null.
W_CleanupRef(r) == IF workerRef = r THEN 0 ELSE workerRef

\* runCode, lines 439-446, and runWithWorker's synchronous part, 368-435.
\* setStatus("loading") and setStatus("running") are in one synchronous
\* block, so the state the next task sees is "running".  The Blob URL is
\* set by the mount effect before any click, and postMessage of a string
\* does not throw: those two rejections are not reachable.
W_Run ==
  /\ variant = "perrun"
  /\ status \notin {"running", "loading"}
  /\ Len(runs) < MaxRuns
  /\ lastError' = Null
  /\ isHtmlOutput' = FALSE
  /\ output' = <<>>
  /\ status' = "running"
  /\ runs' = Append(runs, [NewRun EXCEPT !.pc = "exec", !.timer = "armed",
                             !.exec = "loading", !.id = NextRunId,
                             !.w = Len(runs) + 1, !.sawRunning = TRUE])
  /\ workerRef' = Len(runs) + 1
  /\ runIdRef' = NextRunId
  /\ ev' = Event("run", Len(runs) + 1)
  /\ lastUser' = "run"
  /\ UNCHANGED <<variant, pkg, src, isWorkerReady, pendingExecutions, workers, mainVars>>

\* Worker script, createRuntime succeeded (lines 298-314): the worker goes
\* on to php.run.  Nothing is posted to the page.
W_WorkerLoaded(r) ==
  /\ variant = "perrun"
  /\ runs[r].exec = "loading"
  /\ runs' = [runs EXCEPT ![r].exec = "busy", ![r].loaded = TRUE]
  /\ ev' = Event("loaded", r)
  /\ UNCHANGED <<variant, pkg, src, uiVars, workerVars, mainVars, lastUser>>

\* runCode's continuation after runWithWorker resolved, lines 447-461.
W_Resolved(r, t, rs) ==
  /\ isHtmlOutput' = LooksLikeHtml(t)
  /\ output' = t
  /\ status' = "idle"
  /\ runs' = [rs EXCEPT ![r].pc = "done", ![r].applied = Append(@, "success")]
  /\ UNCHANGED lastError

\* runCode's catch after runWithWorker rejected with message m, lines 462-466.
W_Rejected(r, m, rs) ==
  /\ status' = W_ErrorStatus(m)
  /\ lastError' = Some(m)
  /\ output' = TXT_ErrorPrefix \o m
  /\ runs' = [rs EXCEPT ![r].pc = "done",
                        ![r].applied = Append(@, W_ErrorStatus(m))]
  /\ UNCHANGED isHtmlOutput

\* worker.onmessage of run r, lines 386-410, for a message of type "result"
\* or "error" posted by run r's worker (its id is r's id, so line 388 lets
\* it pass), followed by runCode's continuation.  An error posted while
\* the worker was still in createRuntime is the load failure (history).
W_OnMessage(r, type, t) ==
  /\ workerRef' = W_CleanupRef(r)
  /\ LET rs == [runs EXCEPT ![r].finished = TRUE, ![r].exec = "done",
                            ![r].loadFailed = (runs[r].exec = "loading")]
     IN  IF runs[r].pc # "exec"
         THEN runs' = rs /\ UNCHANGED uiVars
         ELSE IF type = "result"
              THEN W_Resolved(r, t, rs)
              ELSE W_Rejected(r, OrText(t, TXT_UnknownWorkerError), rs)

\* The worker of run r posts its result (worker script lines 331-339).
W_Result(r, v) ==
  /\ variant = "perrun"
  /\ runs[r].exec = "busy"
  /\ W_OnMessage(r, "result", W_Normalize(v))
  /\ ev' = Event("result", r)
  /\ UNCHANGED <<variant, pkg, src, runIdRef, isWorkerReady, pendingExecutions,
                 workers, mainVars, lastUser>>

\* The worker of run r posts an error thrown by php.run (lines 340-343).
W_Error(r, m) ==
  /\ variant = "perrun"
  /\ runs[r].exec = "busy"
  /\ W_OnMessage(r, "error", m)
  /\ ev' = Event("error", r)
  /\ UNCHANGED <<variant, pkg, src, runIdRef, isWorkerReady, pendingExecutions,
                 workers, mainVars, lastUser>>

\* createRuntime exhausted its candidates (line 319): the worker posts the
\* load failure as an error of run r.
W_LoadFail(r) ==
  /\ variant = "perrun"
  /\ runs[r].exec = "loading"
  /\ W_OnMessage(r, "error", TXT_CouldNotLoad)
  /\ ev' = Event("error", r)
  /\ UNCHANGED <<variant, pkg, src, runIdRef, isWorkerReady, pendingExecutions,
                 workers, mainVars, lastUser>>

\* worker.onerror of run r, lines 412-416: an uncaught error in the worker.
W_OnError(r, m) ==
  /\ variant = "perrun"
  /\ runs[r].exec \in {"loading", "busy"}
  /\ workerRef' = W_CleanupRef(r)
  /\ LET rs == [runs EXCEPT ![r].finished = TRUE, ![r].exec = "done"]
     IN  IF runs[r].pc # "exec"
         THEN runs' = rs /\ UNCHANGED uiVars
         ELSE W_Rejected(r, OrText(m, TXT_WorkerRuntimeError), rs)
  /\ ev' = Event("workererror", r)
  /\ UNCHANGED <<variant, pkg, src, runIdRef, isWorkerReady, pendingExecutions,
                 workers, mainVars, lastUser>>

\* Faulty variant of W_Terminate: the worker is left as it is.
W_TerminateNot(e) == IF e = "dead" THEN "dead" ELSE e

\* worker.terminate() in the timer callback, line 421: a worker that is
\* loading the engine or executing the script is gone.
W_Terminate(e) == IF e \in {"loading", "busy"} THEN "dead" ELSE e

\* The client timeout of run r fires, lines 419-426.  Nothing clears this
\* timer; the callback is guarded by `finished` alone.
W_Timer(r) ==
  /\ variant = "perrun"
  /\ runs[r].timer = "armed"
  /\ IF runs[r].finished
     THEN /\ runs' = [runs EXCEPT ![r].timer = "fired"]
          /\ UNCHANGED <<uiVars, workerRef>>
     ELSE /\ workerRef' = W_CleanupRef(r)
          /\ LET rs == [runs EXCEPT ![r].timer = "fired", ![r].finished = TRUE,
                          ![r].exec = W_Terminate(@)]
             IN  IF runs[r].pc # "exec"
                 THEN runs' = rs /\ UNCHANGED uiVars
                 ELSE W_Rejected(r, TXT_ClientTimeout, rs)
  /\ ev' = Event("timer", r)
  /\ UNCHANGED <<variant, pkg, src, runIdRef, isWorkerReady, pendingExecutions,
                 workers, mainVars, lastUser>>

\* stopExecution, lines 470-479.  terminate() discards the worker and every
\* message it has posted or would post; `finished` and the timer of the
\* run stay as they are.
W_Stop ==
  /\ variant = "perrun"
  /\ workerRef # 0
  /\ runs' = [runs EXCEPT ![workerRef].exec = "dead",
                          ![workerRef].applied = Append(@, "stopped")]
  /\ workerRef' = 0
  /\ status' = "stopped"
  /\ output' = TXT_Stopped
  /\ ev' = Event("stop", workerRef)
  /\ lastUser' = "stop"
  /\ UNCHANGED <<variant, pkg, src, isHtmlOutput, lastError, runIdRef, isWorkerReady,
                 pendingExecutions, workers, mainVars>>

\* resetCode, lines 481-486.
W_Reset ==
  /\ variant = "perrun"
  /\ src' = "orig"
  /\ output' = <<>>
  /\ status' = "idle"
  /\ lastError' = Null
  /\ ev' = Event("reset", 0)
  /\ lastUser' = "reset"
  /\ UNCHANGED <<variant, pkg, isHtmlOutput, workerVars, mainVars, runs>>

\* Clear Output button, lines 566-570.
W_Clear ==
  /\ variant = "perrun"
  /\ output' = <<>>
  /\ lastError' = Null
  /\ ev' = Event("clear", 0)
  /\ lastUser' = "clear"
  /\ UNCHANGED <<variant, pkg, src, isHtmlOutput, status, workerVars, mainVars, runs>>

W_Next ==
  \/ W_Run
  \/ W_Stop
  \/ W_Reset
  \/ W_Clear
  \/ \E r \in RunIds : W_WorkerLoaded(r)
  \/ \E r \in RunIds : W_LoadFail(r)
  \/ \E r \in RunIds, v \in EngineResults : W_Result(r, v)
  \/ \E r \in RunIds, m \in EngineErrors : W_Error(r, m)
  \/ \E r \in RunIds, m \in EngineErrors \cup {<<>>} : W_OnError(r, m)
  \/ \E r \in RunIds : W_Timer(r)

\* ------------------------------------- variant "persist" (persistent Worker)
\* Worker script, line 164: output: String(result || '').
P_WorkerOutput(v) == IF Truthy(v) THEN JsString(v) ELSE <<>>

\* A message posted by the worker: id 0 stands for a message without id.
P_ResultMsg(i, t) == [type |-> "result", id |-> i, hasOutput |-> TRUE, output |-> t, error |-> <<>>]
P_ErrorMsg(i, t) == [type |-> "error", id |-> i, hasOutput |-> FALSE, output |-> <<>>, error |-> t]

\* The run whose identifier is i.
P_RunOf(i) == CHOOSE r \in RunIds : runs[r].id = i

\* Faulty variant of P_IsStale: the Map lookup of line 29 is left out.
P_IsStaleNoLookup(msg) == msg.id = 0

\* handleWorkerMessage, guard of lines 27-31: the message is dropped.
P_IsStale(msg) == msg.id = 0 \/ msg.id \notin pendingExecutions

\* handleWorkerMessage, lines 26-81; rs is `runs` as the caller leaves it.
P_HandleWorkerMessage(msg, rs) ==
  IF P_IsStale(msg)
  THEN /\ runs' = rs
       /\ UNCHANGED <<uiVars, pendingExecutions>>
  ELSE LET r == P_RunOf(msg.id) IN
       IF msg.type \in {"result", "output"} \/ msg.hasOutput
       THEN /\ pendingExecutions' = pendingExecutions \ {msg.id}
            /\ isHtmlOutput' = LooksLikeHtml(msg.output)
            /\ output' = msg.output
            /\ status' = "idle"
            /\ runs' = [rs EXCEPT ![r].timer = "cleared", ![r].pc = "done",
                                  ![r].applied = Append(@, "success")]
            /\ UNCHANGED lastError
       ELSE IF msg.type = "error" \/ msg.error # <<>>
       THEN /\ pendingExecutions' = pendingExecutions \ {msg.id}
            /\ status' = "error"
            /\ lastError' = Some(OrText(msg.error, TXT_UnknownError))
            /\ output' = TXT_ErrorPrefix \o OrText(msg.error, TXT_UnknownError)
            /\ runs' = [rs EXCEPT ![r].timer = "cleared", ![r].pc = "done",
                                  ![r].applied = Append(@, "error")]
            /\ UNCHANGED isHtmlOutput
       ELSE /\ runs' = rs
            /\ UNCHANGED <<uiVars, pendingExecutions>>

\* runCode after `await initializeWorker()` resolved with worker w, lines
\* 274-297: the request gets its identifier, its timer and its Map entry
\* and is posted.  rs is `runs` as the caller leaves it.
P_StartExecution(r, w, ready, rs) ==
  IF ~ready
  THEN /\ status' = "error"
       /\ lastError' = Some(TXT_WorkerNotReady)
       /\ output' = TXT_ErrorPrefix \o TXT_WorkerNotReady
       /\ runs' = [rs EXCEPT ![r].pc = "done", ![r].applied = Append(@, "error")]
       /\ UNCHANGED <<isHtmlOutput, runIdRef, pendingExecutions>>
  ELSE /\ status' = "running"
       /\ runIdRef' = NextRunId
       /\ pendingExecutions' = pendingExecutions \cup {NextRunId}
       /\ runs' = [rs EXCEPT ![r].pc = "exec", ![r].id = NextRunId,
                             ![r].timer = "armed", ![r].exec = "busy",
                             ![r].w = w, ![r].sawRunning = TRUE,
                             ![r].loaded = TRUE]
       /\ UNCHANGED <<isHtmlOutput, lastError, output>>

\* runCode's catch, lines 299-304, for the rejection of initializeWorker.
P_InitRejected(r, m, rs) ==
  /\ status' = "error"
  /\ lastError' = Some(m)
  /\ output' = TXT_ErrorPrefix \o m
  /\ runs' = [rs EXCEPT ![r].pc = "done", ![r].applied = Append(@, "error")]
  /\ UNCHANGED <<isHtmlOutput, runIdRef, pendingExecutions>>

\* runCode, lines 265-305, with initializeWorker's synchronous part, lines
\* 189-238.  With a ready worker the promise is already resolved and the
\* continuation runs in the same task; otherwise the not-ready worker is
\* terminated (its init timer is left armed) and a new one is created and
\* pinged.
P_Run ==
  /\ variant = "persist"
  /\ status \notin {"running", "loading"}
  /\ Len(runs) < MaxRuns
  /\ LET r == Len(runs) + 1
         rs == Append(runs, NewRun)
     IN  IF workerRef # 0 /\ isWorkerReady
         THEN /\ runIdRef' = NextRunId
              /\ pendingExecutions' = pendingExecutions \cup {NextRunId}
              /\ runs' = [rs EXCEPT ![r].pc = "exec", ![r].id = NextRunId,
                                    ![r].timer = "armed", ![r].exec = "busy",
                                    ![r].w = workerRef, ![r].sawRunning = TRUE,
                                    ![r].loaded = TRUE]
              /\ status' = "running"
              /\ UNCHANGED <<workerRef, isWorkerReady, workers>>
         ELSE /\ workers' = Append(
                   IF workerRef # 0
                   THEN [workers EXCEPT ![workerRef].st = "terminated"]
                   ELSE workers,
                   NewWorker(r))
              /\ workerRef' = Len(workers) + 1
              /\ isWorkerReady' = FALSE
              /\ runs' = [i \in 1..r |->
                            IF i = r THEN [NewRun EXCEPT !.w = Len(workers) + 1]
                            ELSE IF runs[i].w = workerRef /\ runs[i].exec = "busy"
                                 THEN [runs[i] EXCEPT !.exec = "dead"]
                                 ELSE runs[i]]
              /\ status' = "loading"
              /\ UNCHANGED <<runIdRef, pendingExecutions>>
  /\ lastError' = Null
  /\ isHtmlOutput' = FALSE
  /\ output' = <<>>
  /\ ev' = Event("run", Len(runs) + 1)
  /\ lastUser' = "run"
  /\ UNCHANGED <<variant, pkg, src, mainVars>>

\* The worker answers the ping with 'ready' (worker script lines 145-148);
\* worker.onmessage, lines 212-220, then runCode's continuation if a
\* runCode call awaits this worker's promise.
P_WorkerReady(w) ==
  /\ variant = "persist"
  /\ workers[w].st = "loading"
  /\ workers' = [workers EXCEPT ![w].st = "ready", ![w].settled = TRUE,
                   ![w].wasReady = TRUE,
                   ![w].initTimer = IF @ = "armed" THEN "cleared" ELSE @]
  /\ isWorkerReady' = TRUE
  /\ IF ~workers[w].settled /\ workers[w].run # 0
     THEN P_StartExecution(workers[w].run, w, TRUE, runs)
     ELSE UNCHANGED <<runs, uiVars, runIdRef, pendingExecutions>>
  /\ ev' = Event("ready", workers[w].run)
  /\ UNCHANGED <<variant, pkg, src, workerRef, mainVars, lastUser>>

\* Every CDN source failed (worker script lines 149-154): the worker posts
\* an error without id, which handleWorkerMessage drops; the promise of
\* initializeWorker stays pending.
P_WorkerLoadFail(w) ==
  /\ variant = "persist"
  /\ workers[w].st = "loading"
  /\ workers' = [workers EXCEPT ![w].st = "failed"]
  /\ P_HandleWorkerMessage(P_ErrorMsg(0, TXT_ParseError),
        IF workers[w].run # 0
        THEN [runs EXCEPT ![workers[w].run].loadFailed = TRUE]
        ELSE runs)
  /\ ev' = Event("loadfail", workers[w].run)
  /\ UNCHANGED <<variant, pkg, src, workerRef, runIdRef, isWorkerReady, mainVars, lastUser>>

\* The 10 s initTimeout of worker w fires, lines 208-210.  terminate() in
\* initializeWorker does not clear it.
P_InitTimeout(w) ==
  /\ variant = "persist"
  /\ workers[w].initTimer = "armed"
  /\ workers' = [workers EXCEPT ![w].initTimer = "fired", ![w].settled = TRUE]
  /\ IF ~workers[w].settled /\ workers[w].run # 0
     THEN P_InitRejected(workers[w].run, TXT_InitTimeout, runs)
     ELSE UNCHANGED <<runs, uiVars, runIdRef, pendingExecutions>>
  /\ ev' = Event("inittimeout", workers[w].run)
  /\ UNCHANGED <<variant, pkg, src, workerRef, isWorkerReady, mainVars, lastUser>>

\* worker.onerror, lines 225-230: an uncaught error in worker w.
P_OnError(w, m) ==
  /\ variant = "persist"
  /\ workers[w].st \in {"loading", "ready", "failed"}
  /\ workers' = [workers EXCEPT ![w].settled = TRUE,
                   ![w].initTimer = IF @ = "armed" THEN "cleared" ELSE @]
  /\ isWorkerReady' = FALSE
  /\ IF ~workers[w].settled /\ workers[w].run # 0
     THEN P_InitRejected(workers[w].run, m, runs)
     ELSE UNCHANGED <<runs, uiVars, runIdRef, pendingExecutions>>
  /\ ev' = Event("workererror", workers[w].run)
  /\ UNCHANGED <<variant, pkg, src, workerRef, mainVars, lastUser>>

\* The worker posts the result of run r (worker script lines 158-166).
P_Result(r, v) ==
  /\ variant = "persist"
  /\ runs[r].exec = "busy"
  /\ P_HandleWorkerMessage(P_ResultMsg(runs[r].id, P_WorkerOutput(v)),
                           [runs EXCEPT ![r].exec = "done"])
  /\ ev' = Event(IF P_IsStale(P_ResultMsg(runs[r].id, <<>>)) THEN "stale" ELSE "result", r)
  /\ UNCHANGED <<variant, pkg, src, workerRef, runIdRef, isWorkerReady, workers,
                 mainVars, lastUser>>

\* The worker posts the error of run r (worker script lines 167-173).
P_Error(r, m) ==
  /\ variant = "persist"
  /\ runs[r].exec = "busy"
  /\ P_HandleWorkerMessage(P_ErrorMsg(runs[r].id, m),
                           [runs EXCEPT ![r].exec = "done"])
  /\ ev' = Event(IF P_IsStale(P_ErrorMsg(runs[r].id, m)) THEN "stale" ELSE "error", r)
  /\ UNCHANGED <<variant, pkg, src, workerRef, runIdRef, isWorkerReady, workers,
                 mainVars, lastUser>>

\* The execution timeout of run r fires, lines 282-289.
P_Timer(r) ==
  /\ variant = "persist"
  /\ runs[r].timer = "armed"
  /\ IF runs[r].id \in pendingExecutions
     THEN /\ pendingExecutions' = pendingExecutions \ {runs[r].id}
          /\ status' = "timeout"
          /\ lastError' = Some(TXT_PExecTimeoutErr)
          /\ output' = TXT_PExecTimeoutOut
          /\ runs' = [runs EXCEPT ![r].timer = "fired", ![r].pc = "done",
                                  ![r].applied = Append(@, "timeout")]
          /\ UNCHANGED isHtmlOutput
     ELSE /\ runs' = [runs EXCEPT ![r].timer = "fired"]
          /\ UNCHANGED <<uiVars, pendingExecutions>>
  /\ ev' = Event("timer", r)
  /\ UNCHANGED <<variant, pkg, src, workerRef, runIdRef, isWorkerReady, workers,
                 mainVars, lastUser>>

\* Faulty variant of P_StoppedRun: the entry goes, its timer stays armed.
P_StoppedRunTimerLeft(rec) ==
  [rec EXCEPT !.pc = "done", !.applied = Append(@, "stopped")]

\* stopExecution, lines 308-311, for one entry of the Map: clearTimeout of
\* its timer; the run it belongs to ends as stopped.
P_StoppedRun(rec) ==
  [rec EXCEPT !.timer = "cleared", !.pc = "done",
              !.applied = Append(@, "stopped")]

\* stopExecution, lines 307-315; the Stop button is enabled while the Map
\* has entries (line 398).  The worker is not told and keeps running.
P_Stop ==
  /\ variant = "persist"
  /\ pendingExecutions # {}
  /\ runs' = [r \in RunIds |->
                IF runs[r].id \in pendingExecutions
                THEN P_StoppedRun(runs[r])
                ELSE runs[r]]
  /\ pendingExecutions' = {}
  /\ status' = "stopped"
  /\ output' = TXT_Stopped
  /\ ev' = Event("stop", Latest)
  /\ lastUser' = "stop"
  /\ UNCHANGED <<variant, pkg, src, isHtmlOutput, lastError, workerRef, runIdRef,
                 isWorkerReady, workers, mainVars>>

\* resetCode, lines 317-322.
P_Reset ==
  /\ variant = "persist"
  /\ src' = "orig"
  /\ output' = <<>>
  /\ status' = "idle"
  /\ lastError' = Null
  /\ ev' = Event("reset", 0)
  /\ lastUser' = "reset"
  /\ UNCHANGED <<variant, pkg, isHtmlOutput, workerVars, mainVars, runs>>

\* clearOutput, lines 324-327.
P_Clear ==
  /\ variant = "persist"
  /\ output' = <<>>
  /\ lastError' = Null
  /\ ev' = Event("clear", 0)
  /\ lastUser' = "clear"
  /\ UNCHANGED <<variant, pkg, src, isHtmlOutput, status, workerVars, mainVars, runs>>

WorkerIds == 1..Len(workers)

P_Next ==
  \/ P_Run
  \/ P_Stop
  \/ P_Reset
  \/ P_Clear
  \/ \E w \in WorkerIds : P_WorkerReady(w)
  \/ \E w \in WorkerIds : P_WorkerLoadFail(w)
  \/ \E w \in WorkerIds : P_InitTimeout(w)
  \/ \E w \in WorkerIds, m \in EngineErrors : P_OnError(w, m)
  \/ \E r \in RunIds, v \in EngineResults : P_Result(r, v)
  \/ \E r \in RunIds, m \in EngineErrors : P_Error(r, m)
  \/ \E r \in RunIds : P_Timer(r)

\* ------------------------------------------------------ specification
Next ==
  \/ Edit
  \/ M_Next
  \/ W_Next
  \/ P_Next

Spec == Init /\ [][Next]_vars

\* ------------------------------------------------------------- properties
WorkerVariants == {"perrun", "persist"}

\* What the user sees of the run state: status, output and error message
\* (the main variant spreads the status over isRunning, timedOut, error).
visible == <<status, output, lastError, isRunning, timedOut, error>>

\* The execution timers, by run.
ExecTimers == [r \in RunIds |-> runs[r].timer]

\* The step just taken delivered to the page a message of run r's executor
\* (a result or an error; "stale" is one the page recognised as stale).
ExecutorMessage(r) == ev'.run = r /\ ev'.kind \in {"result", "error", "stale"}

\* The step just taken was a user action.
UserStep == ev'.kind \in UserKinds

\* An outcome (success, error, timeout, stopped) has been applied for run r.
Settled(r) == runs[r].applied # <<>>

ShowsTimeout == IF variant = "main" THEN timedOut ELSE status = "timeout"
ShowsError == IF variant = "main" THEN error # Null ELSE status = "error"
ShowsIdle ==
  IF variant = "main"
  THEN ~isLoadingRuntime /\ ~isRunning /\ ~timedOut /\ error = Null
  ELSE status = "idle"

\* C1: in the worker variants, once a run with a greater identifier has
\* started, a result or error message carrying the identifier of an earlier
\* run changes neither status nor output nor error message.
C1_EarlierRunMessageIgnored ==
  [][\A r \in RunIds :
       (/\ variant \in WorkerVariants
        /\ ExecutorMessage(r)
        /\ \E q \in RunIds : runs[q].id > runs[r].id)
       => UNCHANGED <<status, output, lastError>>]_vars

\* C2: in the worker variants, a message of an executor whose request is
\* no longer awaiting settlement (an outcome was already applied for it),
\* or a message without identifier, leaves status, output, error message,
\* pending set and execution timers unchanged.
C2_StaleMessageIgnored ==
  [][(/\ variant \in WorkerVariants
      /\ \/ \E r \in RunIds : ExecutorMessage(r) /\ Settled(r)
         \/ variant = "persist" /\ ev'.kind = "loadfail")
     => /\ UNCHANGED <<status, output, lastError, isHtmlOutput, pendingExecutions>>
        /\ ExecTimers' = ExecTimers]_vars

\* C2 witness: the persistent worker has just delivered the result or error
\* of a request that had already timed out or been stopped.
C2_Witness ==
  /\ variant = "persist"
  /\ ev.kind = "stale"
  /\ Settled(ev.run)
  /\ runs[ev.run].exec = "done"

\* C3: in every variant, when the timeout timer of a run fires before its
\* executor has settled, the timeout status is shown; and a result or error
\* of that run's executor arriving after its timer fired changes nothing
\* the user sees.
C3_TimeoutThenLateResultIgnored ==
  [][\A r \in RunIds :
       /\ (ev'.kind = "timer" /\ ev'.run = r /\ runs[r].exec # "done")
            => ShowsTimeout'
       /\ (ExecutorMessage(r) /\ runs[r].timer = "fired")
            => UNCHANGED visible]_vars

\* C3 witness: a run timed out, its executor answered afterwards, and the
\* timeout status is still shown.
C3_Witness ==
  /\ ev.kind = "stale"
  /\ runs[ev.run].timer = "fired"
  /\ runs[ev.run].exec = "done"
  /\ ShowsTimeout

\* C4: at most one outcome (success, error, timeout, stopped) is ever
\* applied to the visible state for a run.
C4_SettlesExactlyOnce ==
  \A r \in RunIds : Len(runs[r].applied) <= 1

\* C5: a stop cancels the timer of every request it stops and shows the
\* stopped status; from then on, until the next user action, status and
\* output do not change.
C5_StoppedStaysStopped ==
  [][/\ ev'.kind = "stop"
        => /\ variant \in WorkerVariants => status' = "stopped"
           /\ \A r \in RunIds :
                Len(runs'[r].applied) > Len(runs[r].applied)
                  => runs'[r].timer # "armed"
     /\ (lastUser = "stop" /\ ~UserStep)
        => UNCHANGED <<status, output, isRunning, timedOut, error>>]_vars

\* C6: while the latest run is in progress, a result, an error or the
\* timer of an earlier run that was stopped or timed out changes nothing
\* the user sees (in particular it does not end the running indication).
C6_EarlierRunNeverOverwrites ==
  [][\A r \in RunIds :
       (/\ ev'.run = r
        /\ ev'.kind \in {"result", "error", "stale", "timer"}
        /\ r < Latest
        /\ \E i \in 1..Len(runs[r].applied) :
              runs[r].applied[i] \in {"stopped", "timeout"}
        /\ runs[Latest].pc # "done")
       => UNCHANGED visible]_vars

\* C7: an error reported by the executor of a request that is awaiting
\* settlement and whose timer has not fired yields the error status, never
\* the timeout status, whatever its text; and no timeout is ever applied
\* to a run the user stopped.
C7_TimeoutOnlyFromTimer ==
  /\ [][\A r \in RunIds :
          (/\ ev'.kind = "error" /\ ev'.run = r
           /\ ~Settled(r)
           /\ runs[r].timer = "armed")
          => (ShowsError' /\ ~ShowsTimeout')]_vars
  /\ [](\A r \in RunIds :
          (Settled(r) /\ runs[r].applied[1] = "stopped")
          => \A i \in 1..Len(runs[r].applied) : runs[r].applied[i] # "timeout")

\* C8: a run whose engine load failed never showed the running status and
\* never had an execution timer.
C8_LoadFailureNeverRuns ==
  \A r \in RunIds :
    runs[r].loadFailed => (~runs[r].sawRunning /\ runs[r].timer = "none")

NormalizedResults ==
  { IF variant = "main" THEN M_Normalize(v)
    ELSE IF variant = "perrun" THEN W_Normalize(v)
    ELSE P_WorkerOutput(v) : v \in EngineResults }

\* C9: when the result of a request that awaits settlement arrives before
\* its timer fires, the request stops being pending, the status shown is
\* idle and the output is the normalized result; and the timer of a request
\* whose result has arrived changes nothing the user sees.
C9_ResultSettlesRequest ==
  [][\A r \in RunIds :
       /\ (/\ ev'.kind = "result" /\ ev'.run = r
           /\ ~Settled(r)
           /\ runs[r].timer = "armed")
          => /\ ShowsIdle'
             /\ output' \in NormalizedResults
             /\ runs'[r].pc = "done"
             /\ runs[r].id \notin pendingExecutions'
       /\ (ev'.kind = "timer" /\ ev'.run = r /\ runs[r].exec = "done")
          => UNCHANGED visible]_vars

TimeoutOutputs ==
  { TXT_PExecTimeoutOut, TXT_ErrorPrefix \o TXT_ClientTimeout, TXT_MTimedOutOut }

\* C10: when the latest run ends without any user action since its Run
\* click, with its engine loaded and without its executor having settled,
\* it ends in the timeout status with a timeout message as output.
C10_UnansweredRunTimesOut ==
  [][\A r \in RunIds :
       (/\ r = Latest
        /\ runs[r].pc # "done"
        /\ runs'[r].pc = "done"
        /\ lastUser' = "run"
        /\ runs'[r].loaded
        /\ runs'[r].exec # "done")
       => (ShowsTimeout' /\ output' \in TimeoutOutputs)]_vars

\* ------------------------------------------------ fairness: timers fire
\* setTimeout callbacks run once their delay has elapsed: the execution
\* timers of the three variants and the initialisation timer of the
\* persistent worker.  The engine, the worker and the user may stay silent
\* for ever.
TimersFire ==
  /\ \A r \in 1..(MaxRuns + 1) : WF_vars(r \in RunIds /\ M_Timer(r))
  /\ \A r \in 1..MaxRuns : WF_vars(r \in RunIds /\ W_Timer(r))
  /\ \A r \in 1..MaxRuns : WF_vars(r \in RunIds /\ P_Timer(r))
  /\ \A w \in 1..(MaxRuns + 1) : WF_vars(w \in WorkerIds /\ P_InitTimeout(w))

FairSpec == Spec /\ TimersFire

\* The Run button is enabled (main: line 210; perrun: line 535; persist:
\* line 379).
RunAvailable ==
  IF variant = "main" THEN ~isLoadingRuntime /\ ~isRunning
  ELSE status \notin {"running", "loading"}

\* C11: whenever the Run action is unavailable because a run is loading or
\* running, it eventually becomes available again, even if the engine and
\* the worker never answer (timers are assumed to fire).
C11_RunEventuallyAvailable == (~RunAvailable) ~> RunAvailable

\* C12: a run that was waiting for the engine goes on to execute the source
\* in the step in which its engine load succeeds: it is then in its
\* execution phase with the executor at work, without another Run click.
C12_LoadedRunExecutes ==
  [][\A r \in RunIds :
       (/\ runs[r].pc # "done"
        /\ ~runs[r].loaded
        /\ runs'[r].loaded)
       => (runs'[r].pc = "exec" /\ runs'[r].exec = "busy")]_vars

\* C13: a reset, in whatever state it is invoked, leaves the source equal
\* to the original input, the output empty and the status idle (main: no
\* running, timed-out or error indication); a reset that directly follows
\* a reset changes nothing.
C13_ResetRestoresIdle ==
  [][ev'.kind = "reset"
     => /\ src' = "orig"
        /\ output' = <<>>
        /\ IF variant = "main"
           THEN ~isRunning' /\ ~timedOut' /\ error' = Null
           ELSE status' = "idle"
        /\ ev.kind = "reset" => UNCHANGED vars]_vars

\* An engine handle has been created successfully in this widget instance
\* (main: setPhp, line 43; perrun: createRuntime returned in some run's
\* worker; persist: some worker answered the ping with 'ready').
EngineCreated ==
  IF variant = "main" THEN php
  ELSE IF variant = "perrun" THEN \E r \in RunIds : runs[r].loaded
  ELSE \E w \in WorkerIds : workers[w].wasReady

\* C14: the engine is loaded at most once per widget instance: a step that
\* completes an engine load (import and construction) happens only when no
\* engine handle has been created before.
C14_EngineLoadedOnce ==
  [][ev'.kind \in {"loaded", "ready"} => ~EngineCreated]_vars

\* --------------------------------------------- presentation of a result
\* The engine is opaque: its run entry point may hand back any string or
\* any {stdout, stderr} object.  PresentSpec starts each variant in the
\* state in which its first executing run awaits the engine and delivers
\* one result drawn from ResultValues through the variant's own handler.
MaxTextLen == 4
MaxFieldLen == 1
TextChars == {"a", "B", "<", "/", ">", "&", "\n"}
TextsUpTo(n) == UNION { [1..k -> TextChars] : k \in 0..n }
ResultValues ==
  { StrVal(t) : t \in TextsUpTo(MaxTextLen) }
    \cup { ObjVal(o, e) : o \in TextsUpTo(MaxFieldLen), e \in TextsUpTo(MaxFieldLen) }

\* The run of each variant that executes first, as its Run click (and the
\* engine load before it) leaves it.
PresentRun ==
  [NewRun EXCEPT !.pc = "exec", !.timer = "armed", !.exec = "busy",
                 !.sawRunning = TRUE, !.loaded = TRUE]

\* main: Run (engine load), load succeeded, Run; perrun: Run, the worker
\* loaded the engine; persist: the mounted worker said ready, Run.
PresentStart ==
  /\ variant \in Variants
  /\ src = "orig"
  /\ output = <<>>
  /\ isHtmlOutput = FALSE
  /\ status = IF variant = "main" THEN "idle" ELSE "running"
  /\ lastError = Null
  /\ runIdRef = IF variant = "main" THEN 0 ELSE 1
  /\ isWorkerReady = (variant = "persist")
  /\ pendingExecutions = IF variant = "persist" THEN {1} ELSE {}
  /\ workers = IF variant = "persist"
               THEN <<[NewWorker(0) EXCEPT !.st = "ready", !.settled = TRUE,
                                           !.wasReady = TRUE,
                                           !.initTimer = "cleared"]>>
               ELSE <<>>
  /\ workerRef = IF variant = "main" THEN 0 ELSE 1
  /\ isLoadingRuntime = FALSE
  /\ isRunning = (variant = "main")
  /\ php = (variant = "main")
  /\ error = Null
  /\ timedOut = FALSE
  /\ abortRef = FALSE
  /\ runs = IF variant = "main"
            THEN <<[NewRun EXCEPT !.pc = "done", !.loaded = TRUE],
                   [PresentRun EXCEPT !.phpSeen = TRUE]>>
            ELSE <<[PresentRun EXCEPT !.id = 1, !.w = 1]>>
  /\ ev = IF variant = "perrun" THEN Event("loaded", 1) ELSE Event("run", Latest)
  /\ lastUser = "run"

PresentInit == pkg = UsualPackage /\ PresentStart

PresentNext ==
  \/ \E v \in ResultValues : M_ExecResult(Latest, v)
  \/ \E v \in ResultValues : W_Result(Latest, v)
  \/ \E v \in ResultValues : P_Result(Latest, v)

PresentSpec == PresentInit /\ [][PresentNext]_vars

\* The normalized form of an engine value: a string as it is; stdout
\* followed, exactly when stderr is not empty, by a newline and stderr; any
\* other shape stringified.
NormalizedResult(v) ==
  IF v.kind = "str" THEN v.s
  ELSE IF v.stdout # <<>> \/ v.stderr # <<>>
       THEN v.stdout \o (IF v.stderr # <<>> THEN <<"\n">> \o v.stderr ELSE <<>>)
       ELSE JsString(v)

\* The step delivers engine value v as the result of the latest run.
Delivers(v) ==
  \/ M_ExecResult(Latest, v)
  \/ W_Result(Latest, v)
  \/ P_Result(Latest, v)

\* C15: whatever value the engine returns, the output shown after its
\* delivery is the normalized form of that value.
C15_OutputIsNormalizedResult ==
  [][\A v \in ResultValues : Delivers(v) => output' = NormalizedResult(v)]_vars

\* looksLikeHTML of the main variant, lines 55-58: false for an empty text.
M_LooksLikeHTML(text) == text # <<>> /\ LooksLikeHtml(text)

\* The output is presented as markup (main: renderOutput takes the iframe
\* branch, line 172; worker variants: the isHtmlOutput flag, line 617 and
\* part_000 line 462).
ClassifiedMarkup ==
  IF variant = "main" THEN M_LooksLikeHTML(output) ELSE isHtmlOutput

\* A text has a tag-like substring: a '<', an optional '/', a letter of
\* either case, any characters, and a later '>'.
TagLike(s) ==
  \E i \in 1..Len(s), j \in 1..Len(s) :
    /\ s[i] = "<"
    /\ s[j] = ">"
    /\ \/ i + 1 < j /\ IsLetter(s[i + 1])
       \/ i + 2 < j /\ s[i + 1] = "/" /\ IsLetter(s[i + 2])

\* C16: the text a delivered result leaves as output is classified as
\* markup exactly when it has a tag-like substring; every other text, the
\* empty text included, is plain text.
C16_MarkupIffTagLike == ClassifiedMarkup <=> TagLike(output)

\* C16 witness: a result was delivered whose text is a closing tag with an
\* upper-case letter, and it is presented as markup.
C16_Witness ==
  /\ ev.kind = "result"
  /\ output = <<"<", "/", "B", ">">>
  /\ ClassifiedMarkup

\* The entities of escapeHtml, lines 63-65.
ENT_amp == <<"&", "a", "m", "p", ";">>
ENT_lt == <<"&", "l", "t", ";">>
ENT_gt == <<"&", "g", "t", ";">>

\* String.prototype.replace with a global one-character pattern.
RECURSIVE ReplaceAll(_, _, _)
ReplaceAll(s, c, rep) ==
  IF s = <<>> THEN <<>>
  ELSE (IF Head(s) = c THEN rep ELSE <<Head(s)>>) \o ReplaceAll(Tail(s), c, rep)

\* escapeHtml, lines 61-65: three replacements, one after the other.
EscapeHtml(s) ==
  ReplaceAll(ReplaceAll(ReplaceAll(s, "&", ENT_amp), "<", ENT_lt), ">", ENT_gt)

\* A text in which each '&', '<' and '>' stands as its entity, once.
EscapeChar(c) ==
  IF c = "&" THEN ENT_amp
  ELSE IF c = "<" THEN ENT_lt
  ELSE IF c = ">" THEN ENT_gt
  ELSE <<c>>

RECURSIVE EscapedOnce(_)
EscapedOnce(s) ==
  IF s = <<>> THEN <<>> ELSE EscapeChar(Head(s)) \o EscapedOnce(Tail(s))

\* The markup the view layer produces for a text child {s}: React escapes
\* the characters of a text child itself.
ReactTextChild(s) == EscapedOnce(s)

\* The placeholder of the persist variant, part_000 line 484.
TXT_Ready ==
  <<"R","e","a","d","y"," ","t","o"," ","e","x","e","c","u","t","e"," ","P","H","P"," ","c","o","d","e",".",".",".">>

\* The markup of the <pre> that shows a plain-text output (main:
\* renderOutput, lines 168 and 187-191; perrun: lines 631-639; persist:
\* part_000 lines 476-485).
RenderedPlainText ==
  IF variant = "main"
  THEN IF output = <<>> THEN <<>> ELSE ReactTextChild(EscapeHtml(output))
  ELSE IF variant = "perrun" THEN ReactTextChild(output)
  ELSE ReactTextChild(IF output # <<>> THEN output
                      ELSE IF status = "idle" THEN TXT_Ready ELSE <<>>)

\* C17: a delivered result whose text has no tag-like substring is
\* presented as plain text, and in its rendered form each '&', '<' and '>'
\* of the text is escaped exactly once.
C17_PlainTextEscapedOnce ==
  (ev.kind = "result" /\ output # <<>> /\ ~TagLike(output))
    => (~ClassifiedMarkup /\ RenderedPlainText = EscapedOnce(output))

Statuses == {"idle", "loading", "running", "stopped", "timeout", "error"}

\* C18: one status holds at a time.  The status of the worker variants is
\* one of the six values; in the main variant the timed-out and the error
\* indication are never both set, and no event of an earlier run sets
\* either of them while the latest run is in progress.
C18_OneStatus ==
  [][/\ status' \in Statuses
     /\ ~(timedOut' /\ error' # Null)
     /\ \A r \in RunIds :
          (/\ variant = "main"
           /\ ev'.run = r
           /\ ev'.kind \notin UserKinds
           /\ r < Latest
           /\ runs[Latest].pc # "done")
          => /\ timedOut' => timedOut
             /\ error' # Null => error' = error]_vars

\* C19: the execution timer of a run is started only once the engine that
\* run uses has loaded successfully: a run that has or had a timer has its
\* engine loaded.
C19_TimerOnlyAfterLoad ==
  \A r \in RunIds : runs[r].timer # "none" => runs[r].loaded

\* The identifier of run r in the list rs of runs (0: none yet).
IdOf(rs, r) == IF r \in 1..Len(rs) THEN rs[r].id ELSE 0

\* C20: in the worker variants an identifier, once assigned to a run, stays
\* with it, and the identifier a run is assigned is strictly greater than
\* the identifier of every other run, so that none is reused and no two
\* pending requests share one.
C20_RunIdsStrictlyIncrease ==
  [][(variant \in WorkerVariants)
     => (\A r \in 1..Len(runs') :
           /\ IdOf(runs, r) # 0 => runs'[r].id = IdOf(runs, r)
           /\ (IdOf(runs, r) = 0 /\ runs'[r].id # 0)
              => ((\A q \in RunIds : q # r => runs[q].id < runs'[r].id)
                  /\ (runs'[r].id \notin pendingExecutions)))]_vars

\* C20 witness: the persistent worker has two pending requests, the later
\* run holding the greater identifier.
C20_Witness ==
  /\ variant = "persist"
  /\ Len(runs) = 2
  /\ runs[1].id = 1
  /\ runs[2].id = 2
  /\ pendingExecutions = {1, 2}

\* The runs whose script the engine or a worker is executing.
InFlight == { r \in RunIds : runs[r].exec = "busy" }

\* C21: in the main variant at most one script execution is in flight on
\* the shared engine at any time, also after the user pressed Stop.
C21_OneExecutionInFlight ==
  variant = "main" => Cardinality(InFlight) <= 1

\* C22: in the worker variants a stop terminates the worker that executes
\* a request it stops, so that no stopped script is left executing, and no
\* two scripts in flight are ever served by the same worker.
C22_StopTerminatesWorker ==
  [][(variant \in WorkerVariants)
     => /\ ev'.kind = "stop"
            => \A r \in RunIds :
                 Len(runs'[r].applied) > Len(runs[r].applied)
                   => runs'[r].exec # "busy"
        /\ \A r1 \in 1..Len(runs'), r2 \in 1..Len(runs') :
             (/\ r1 # r2
              /\ runs'[r1].exec = "busy"
              /\ runs'[r2].exec = "busy")
             => runs'[r1].w # runs'[r2].w]_vars

\* ------------------------------------------------------ the runtime loader
Outcomes == {"importFails", "noFactory", "factoryFails", "initFails", "ok"}

\* Candidate sources: CDN_SOURCES (part_000 lines 87-91), TRIES (line 304)
\* and the one module of the main variant (line 33).
P_Sources == <<"jsdelivr", "unpkg", "skypack">>
W_Sources == <<"mjs", "js">>
M_Sources == <<"php-wasm">>

\* What a loader call comes to: whether it returned an engine, how many
\* candidates it tried, and the state of the handle variable afterwards
\* ("none": null; "usable"; "unusable": an engine whose initialisation
\* failed).
LoadResult(o, t, h) == [ok |-> o, tried |-> t, handle |-> h]

\* loadPHPWithFallback, part_000 lines 93-121, from candidate i on, with
\* phpInstance in state h.  Line 103 assigns phpInstance before the
\* initialisation of lines 106-112 is awaited.
RECURSIVE P_LoadFrom(_, _, _)
P_LoadFrom(i, ss, h) ==
  IF i > Len(P_Sources) THEN LoadResult(FALSE, i - 1, h)
  ELSE IF ss[i] = "ok" THEN LoadResult(TRUE, i, "usable")
  ELSE P_LoadFrom(i + 1, ss, IF ss[i] = "initFails" THEN "unusable" ELSE h)

\* createRuntime, lines 298-320, from candidate i on: phpRuntime is
\* assigned only when createPHP() has resolved (line 311).
RECURSIVE W_CreateFrom(_, _)
W_CreateFrom(i, ss) ==
  IF i > Len(W_Sources) THEN LoadResult(FALSE, i - 1, "none")
  ELSE IF ss[i] = "ok" THEN LoadResult(TRUE, i, "usable")
  ELSE W_CreateFrom(i + 1, ss)

\* loadRuntime, lines 31-48: one module; setPhp only after createPHP().
M_LoadRuntime(ss) ==
  IF ss[1] = "ok" THEN LoadResult(TRUE, 1, "usable")
  ELSE LoadResult(FALSE, 1, "none")

\* The loader of the variant, called with no engine loaded.
Loader ==
  IF variant = "main" THEN M_LoadRuntime(pkg.sources)
  ELSE IF variant = "perrun" THEN W_CreateFrom(1, pkg.sources)
  ELSE P_LoadFrom(1, pkg.sources, "none")

NumSources ==
  IF variant = "main" THEN Len(M_Sources)
  ELSE IF variant = "perrun" THEN Len(W_Sources)
  ELSE Len(P_Sources)

\* Each variant while its first engine load is under way (main and perrun:
\* after the first Run click; persist: after the mount effect), for every
\* package.
LoaderInit ==
  /\ variant \in Variants
  /\ pkg \in { Package(ss, {"run"}) : ss \in [1..Len(P_Sources) -> Outcomes] }
  /\ src = "orig"
  /\ output = <<>>
  /\ isHtmlOutput = FALSE
  /\ status = IF variant = "perrun" THEN "running" ELSE "idle"
  /\ lastError = Null
  /\ runIdRef = IF variant = "perrun" THEN 1 ELSE 0
  /\ isWorkerReady = FALSE
  /\ pendingExecutions = {}
  /\ workers = IF variant = "persist" THEN <<NewWorker(0)>> ELSE <<>>
  /\ workerRef = IF variant = "main" THEN 0 ELSE 1
  /\ isLoadingRuntime = (variant = "main")
  /\ isRunning = (variant = "main")
  /\ php = FALSE
  /\ error = Null
  /\ timedOut = FALSE
  /\ abortRef = FALSE
  /\ runs = IF variant = "main" THEN <<NewRun>>
            ELSE IF variant = "perrun"
            THEN <<[NewRun EXCEPT !.pc = "exec", !.timer = "armed",
                                  !.exec = "loading", !.id = 1, !.w = 1,
                                  !.sawRunning = TRUE]>>
            ELSE <<>>
  /\ ev = IF variant = "persist" THEN Event("mount", 0) ELSE Event("run", 1)
  /\ lastUser = IF variant = "persist" THEN "none" ELSE "run"

\* The load ends as the loader decides.
LoaderNext ==
  \/ Loader.ok /\ M_LoadOk(1)
  \/ ~Loader.ok /\ M_LoadFail(1)
  \/ Loader.ok /\ W_WorkerLoaded(1)
  \/ ~Loader.ok /\ W_LoadFail(1)
  \/ Loader.ok /\ P_WorkerReady(1)
  \/ ~Loader.ok /\ P_WorkerLoadFail(1)

LoaderSpec == LoaderInit /\ [][LoaderNext]_vars

\* The candidates of the variant that yield a usable engine.
UsableSources == { i \in 1..NumSources : pkg.sources[i] = "ok" }

\* The engine load of the variant has ended, in success or in failure.
LoadEnded == ev.kind \in {"loaded", "ready", "loadfail", "error"}

\* C23: the loader tries its candidates in the listed order up to the
\* first that yields a usable engine and no further, fails only when every
\* candidate failed, and after a total failure leaves no engine handle set.
C23_LoaderFirstUsableSource ==
  LoadEnded
    => /\ Loader.ok <=> UsableSources # {}
       /\ Loader.ok <=> ev.kind \in {"loaded", "ready"}
       /\ Loader.ok => /\ Loader.tried \in UsableSources
                       /\ \A i \in UsableSources : Loader.tried <= i
                       /\ Loader.handle = "usable"
       /\ ~Loader.ok => /\ Loader.tried = NumSources
                        /\ Loader.handle = "none"

\* ------------------------------------------------ entry-point selection
\* The method names an engine object may expose; "php.run" and "php.exec"
\* are the methods of its nested php object (part_000 lines 131, 135).
Methods == {"run", "execute", "exec", "runString", "php.run", "php.exec"}

\* The entry points in the order each executor looks for them.
M_EntryPoints == <<"run", "execute", "exec", "runString">>
P_EntryPoints == <<"run", "php.run", "exec", "php.exec">>
W_EntryPoints == <<"run">>

TXT_PNoMethod ==
  <<"N","o"," ","v","a","l","i","d"," ","P","H","P"," ","e","x","e","c","u","t","i","o","n"," ","m","e","t","h","o","d"," ","f","o","u","n","d">>
TXT_WNotAFunction ==
  <<"p","h","p",".","r","u","n"," ","i","s"," ","n","o","t"," ","a"," ","f","u","n","c","t","i","o","n">>

\* Faulty variant of M_Runner: exec is looked for before execute.
M_RunnerExecFirst(ms) ==
  IF "run" \in ms THEN "run"
  ELSE IF "exec" \in ms THEN "exec"
  ELSE IF "execute" \in ms THEN "execute"
  ELSE IF "runString" \in ms THEN "runString"
  ELSE "none"

\* main, lines 91-97: php.run || php.execute || php.exec, then runString.
M_Runner(ms) ==
  IF "run" \in ms THEN "run"
  ELSE IF "execute" \in ms THEN "execute"
  ELSE IF "exec" \in ms THEN "exec"
  ELSE IF "runString" \in ms THEN "runString"
  ELSE "none"

\* persist, executePHP, lines 129-137.
P_Runner(ms) ==
  IF "run" \in ms THEN "run"
  ELSE IF "php.run" \in ms THEN "php.run"
  ELSE IF "exec" \in ms THEN "exec"
  ELSE IF "php.exec" \in ms THEN "php.exec"
  ELSE "none"

\* perrun, worker script line 331: php.run(code) and nothing else.
W_Runner(ms) == IF "run" \in ms THEN "run" ELSE "none"

\* A stub engine for the selection: each of its entry points returns its
\* own name, so the output tells which one the executor invoked.
EntryEcho(m) ==
  CASE m = "run" -> <<"r","u","n">>
    [] m = "execute" -> <<"e","x","e","c","u","t","e">>
    [] m = "exec" -> <<"e","x","e","c">>
    [] m = "runString" -> <<"r","u","n","S","t","r","i","n","g">>
    [] m = "php.run" -> <<"p","h","p",".","r","u","n">>
    [] m = "php.exec" -> <<"p","h","p",".","e","x","e","c">>

\* The first run of each variant executing on an engine that exposes any
\* subset of the method names.
EntryInit ==
  /\ pkg \in { Package(<<"ok", "ok", "ok">>, ms) : ms \in SUBSET Methods }
  /\ PresentStart

\* The executor selects its entry point and the page handles what comes
\* back: the entry point's value, or the error thrown when none is found.
\* A timer the answer left armed fires afterwards (persist clears its timer
\* with the answer, lines 36 and 73).
EntryNext ==
  \/ /\ M_Runner(pkg.methods) # "none"
     /\ M_ExecResult(Latest, StrVal(EntryEcho(M_Runner(pkg.methods))))
  \/ /\ M_Runner(pkg.methods) = "none"
     /\ M_ExecError(Latest, TXT_MNoRunner)
  \/ /\ W_Runner(pkg.methods) # "none"
     /\ W_Result(Latest, StrVal(EntryEcho(W_Runner(pkg.methods))))
  \/ /\ W_Runner(pkg.methods) = "none"
     /\ W_Error(Latest, TXT_WNotAFunction)
  \/ /\ P_Runner(pkg.methods) # "none"
     /\ P_Result(Latest, StrVal(EntryEcho(P_Runner(pkg.methods))))
  \/ /\ P_Runner(pkg.methods) = "none"
     /\ P_Error(Latest, TXT_PNoMethod)
  \/ runs[Latest].exec = "done" /\ M_Timer(Latest)
  \/ runs[Latest].exec = "done" /\ W_Timer(Latest)

EntrySpec == EntryInit /\ [][EntryNext]_vars

\* The prioritized list of the variant, and the positions of the entry
\* points the engine exposes.
EntryPoints ==
  IF variant = "main" THEN M_EntryPoints
  ELSE IF variant = "perrun" THEN W_EntryPoints ELSE P_EntryPoints
PresentEntries == { i \in 1..Len(EntryPoints) : EntryPoints[i] \in pkg.methods }
FirstPresentEntry ==
  EntryPoints[CHOOSE i \in PresentEntries : \A j \in PresentEntries : i <= j]

\* The executor has answered the run.
Answered == runs[Latest].exec = "done"

\* The message of the error the page shows.
ShownError == IF variant = "main" THEN error ELSE lastError

\* C24: the executor invokes the first entry point of its prioritized list
\* that the engine exposes (the output is that entry point's value and the
\* run succeeded); when the engine exposes none of them the run has ended
\* with an error that carries a message: it has not succeeded, is not left
\* running and has not timed out.
C24_FirstEntryPointOrError ==
  Answered =>
    /\ runs[Latest].pc = "done"
    /\ ~ShowsTimeout
    /\ IF PresentEntries # {}
       THEN /\ output = EntryEcho(FirstPresentEntry)
            /\ runs[Latest].applied = <<"success">>
            /\ ~ShowsError
       ELSE /\ runs[Latest].applied = <<"error">>
            /\ ShowsError
            /\ ~ShownError.null /\ ShownError.text # <<>>
            /\ IF variant = "main" THEN ~isRunning ELSE status = "error"

\* An engine that exposes execute and exec but not run was run by the main
\* variant, and an engine without any entry point by each variant.
C24_Witness ==
  /\ Answered
  /\ runs[Latest].timer # "armed"
  /\ \/ variant = "main" /\ pkg.methods = {"execute", "exec", "php.run"}
     \/ pkg.methods = {}

\* C25: in the persistent-worker variant, once a later runCode call has
\* replaced the worker an earlier call was waiting for, that worker is
\* terminated and the firing of its initialization timeout changes neither
\* the status nor the output nor the error message.
C25_ReplacedInitTimeoutIgnored ==
  [][(/\ variant = "persist"
      /\ ev'.kind = "inittimeout"
      /\ ev'.run # 0
      /\ ev'.run < Latest)
       => /\ workers[runs[ev'.run].w].st = "terminated"
          /\ UNCHANGED <<status, output, lastError>>]_vars

\* The runs of the per-run variant whose worker has been created and not
\* terminated.
AliveWorkers == { r \in RunIds : runs[r].exec \in {"loading", "busy"} }

\* C26: in the worker-per-run variant at most one worker is alive, and
\* workerRef.current refers to every worker that is alive.
C26_OneAliveWorkerReferenced ==
  variant = "perrun"
    => /\ Cardinality(AliveWorkers) <= 1
       /\ \A r \in AliveWorkers : workerRef = runs[r].w

\* The worker-per-run variant on its own, with its timers firing: the
\* callback of line 419 runs once its delay has elapsed.  W_TimersFire is
\* weak fairness of W_Timer(r), written with the condition under which
\* W_Timer(r) is enabled: the timer of run r is armed.
W_Init == Init /\ variant = "perrun"
W_Step == Edit \/ W_Next
W_TimerArmed(r) == r \in RunIds /\ runs[r].timer = "armed"
W_TimersFire ==
  \A r \in 1..MaxRuns :
    []<>(~W_TimerArmed(r)) \/ []<><<r \in RunIds /\ W_Timer(r)>>_vars
W_FairSpec == W_Init /\ [][W_Step]_vars /\ W_TimersFire

\* C27: in the worker-per-run variant, if timers fire, every worker that
\* is created is eventually terminated, whatever the user does and however
\* long the engine stays silent.
C27_EveryWorkerTerminated ==
  \A r \in 1..MaxRuns :
    (variant = "perrun" /\ r \in AliveWorkers) ~> ~(r \in AliveWorkers)

\* The worker of the first run is alive, a second run has come and gone,
\* workerRef.current is null and the user has reset the page: nothing but
\* its own timer is left to end that worker.
C27_Witness ==
  /\ variant = "perrun"
  /\ AliveWorkers = {1}
  /\ Latest = 2
  /\ workerRef = 0
  /\ lastUser = "reset"

\* ------------------------------------ persistent variant with its teardown
\* The cleanup of the mount effect, lines 244-262: the worker is terminated
\* and both refs are reset, every pending timer is cleared and the Map is
\* emptied.  React runs it when the component unmounts and, in StrictMode
\* development builds, once right after the first mount, after which the
\* effect body creates and pings a new worker (line 242).  Here it may run
\* at any moment and the component lives on, which covers both.  Mounts
\* are the workers the effect body created.
MaxTeardowns == 1
Mounts == { w \in WorkerIds : workers[w].run = 0 }

P_Teardown ==
  /\ variant = "persist"
  /\ Cardinality(Mounts) <= MaxTeardowns
  /\ workers' = Append(
        IF workerRef # 0
        THEN [workers EXCEPT ![workerRef].st = "terminated"]
        ELSE workers,
        NewWorker(0))
  /\ workerRef' = Len(workers) + 1
  /\ isWorkerReady' = FALSE
  /\ runs' = [r \in RunIds |->
                LET rec == IF workerRef # 0 /\ runs[r].w = workerRef
                              /\ runs[r].exec = "busy"
                           THEN [runs[r] EXCEPT !.exec = "dead"]
                           ELSE runs[r]
                IN  IF runs[r].id \in pendingExecutions
                    THEN [rec EXCEPT !.timer = "cleared", !.pc = "done"]
                    ELSE rec]
  /\ pendingExecutions' = {}
  /\ ev' = Event("teardown", 0)
  /\ UNCHANGED <<variant, pkg, src, uiVars, runIdRef, mainVars, lastUser>>

P_Init == Init /\ variant = "persist"
P_Step == Edit \/ P_Next \/ P_Teardown
P_Spec == P_Init /\ [][P_Step]_vars

\* The identifiers of the requests whose execution timer is armed.
ArmedTimers == { runs[r].id : r \in { q \in RunIds : runs[q].timer = "armed" } }

\* C28: in the persistent-worker variant the requests whose execution
\* timer is armed are exactly the entries of pendingExecutions.
C28_ArmedTimersArePending ==
  variant = "persist" => ArmedTimers = pendingExecutions

\* A request was stopped, its entry and its timer are gone, and a later
\* request is pending with its timer armed.
C28_Witness ==
  /\ variant = "persist"
  /\ Latest = 2
  /\ runs[1].applied = <<"stopped">>
  /\ runs[1].timer = "cleared"
  /\ pendingExecutions = {runs[2].id}
  /\ runs[2].timer = "armed"
=============================================================================
